---- MODULE Spec2Model ----
(***************************************************************************)
(* A model of mojo/public/tools/bindings/generators/mojom_js_generator.py: *)
(* the jinja filters (default_value, payload_size, decode_snippet,         *)
(* encode_snippet, expression_to_text), CodecType, and the Generator's     *)
(* GenerateFiles / GenerateJsModule / GetImports.                          *)
(*                                                                         *)
(* Python values are records with a "tag" field: a str is                  *)
(* [tag |-> "str", s |-> ...], None is [tag |-> "None"], an int is         *)
(* [tag |-> "int", n |-> ...], and a raised exception, as the outcome of a *)
(* call, is [tag |-> "raise", ...].  mojom kinds are records tagged        *)
(* "prim", "struct", "array", "interface" and "enum".                      *)
(***************************************************************************)
EXTENDS Integers, Sequences, FiniteSets, TLC

VARIABLES
  filter,     \* the jinja filter applied last ("none" before the first)
  arg,        \* the argument it was applied to
  ret,        \* what it returned, or the exception it raised
  ctTop,      \* CodecType, step by step: the kind of the outermost call
  ctKind,     \* the argument of the innermost call
  ctStack,    \* the callers waiting for it ("PointerTo" / "ArrayOf" / "Interface")
  ctCalls,    \* the number of calls of CodecType made so far, the outermost included
  ctPc,       \* "call", "return", "done", "raised" ("off" in the other specifications)
  ctRet,      \* the value being returned
  module,     \* self.module: its name and its list of import dicts
  pc,         \* Generator: "idle", "context" (GenerateJsModule has returned), "rendered"
  pre,        \* self.module as it was when GenerateJsModule was entered last
  context,    \* the dict GenerateJsModule returned (its "imports" entry)
  expr,       \* the expression the template handed to expression_to_text last
  text        \* what expression_to_text returned for it

vars == <<filter, arg, ret, ctTop, ctKind, ctStack, ctCalls, ctPc, ctRet,
          module, pc, pre, context, expr, text>>

filterVars == <<filter, arg, ret>>
codecVars == <<ctTop, ctKind, ctStack, ctCalls, ctPc, ctRet>>
moduleVars == <<module, pc, pre, context, expr, text>>

-----------------------------------------------------------------------------
(* Bounds of the model. *)

MaxDepth == 2          \* array nesting depth of the kinds
MaxFields == 2         \* length of a packed-field list
MaxOffset == 9         \* largest byte offset of a packed field
MaxImports == 3        \* imports of a module
MaxTokens == 2         \* tokens of an expression
RecursionLimit == 6    \* Python's recursion limit, scaled down

-----------------------------------------------------------------------------
(* Python values. *)

PyNone == [tag |-> "None"]

PyStr(s) == [tag |-> "str", s |-> s]

PyInt(n) == [tag |-> "int", n |-> n]

Raised(msg) == [tag |-> "raise", msg |-> msg]

\* bool(v), as `if v:` evaluates it
Truthy(v) ==
  CASE v.tag = "None" -> FALSE
    [] v.tag = "str" -> v.s # ""
    [] v.tag = "int" -> v.n # 0
    [] v.tag = "tuple" -> Len(v.items) > 0
    [] v.tag = "dict" -> TRUE        \* import dicts always hold module_name
    [] OTHER -> TRUE                 \* an object without __len__ / __nonzero__

\* "%s" % v, for the values CodecType returns
Fmt(v) ==
  CASE v.tag = "str" -> v.s
    [] v.tag = "None" -> "None"
    [] OTHER -> "<object>"

Digit(d) ==
  CASE d = 0 -> "0" [] d = 1 -> "1" [] d = 2 -> "2" [] d = 3 -> "3"
    [] d = 4 -> "4" [] d = 5 -> "5" [] d = 6 -> "6" [] d = 7 -> "7"
    [] d = 8 -> "8" [] d = 9 -> "9"

RECURSIVE str(_)
\* str(n) of a non-negative int: its decimal digits
str(n) == IF n < 10 THEN Digit(n) ELSE str(n \div 10) \o Digit(n % 10)

-----------------------------------------------------------------------------
(* The kinds of mojom.generate.module. *)

PRIMITIVES ==
  {"BOOL", "INT8", "UINT8", "INT16", "UINT16", "INT32", "UINT32", "FLOAT",
   "HANDLE", "DCPIPE", "DPPIPE", "MSGPIPE", "SHAREDBUFFER", "INT64", "UINT64",
   "DOUBLE", "STRING"}

Primitive(spec) == [tag |-> "prim", spec |-> spec]

Struct(name) == [tag |-> "struct", name |-> name]

Array(kind) == [tag |-> "array", kind |-> kind]

Interface(name) == [tag |-> "interface", name |-> name]

\* an enum and the values its members declare
Enum(name, values) == [tag |-> "enum", name |-> name, values |-> values]

MSGPIPE == Primitive("MSGPIPE")

INT32 == Primitive("INT32")

IsPrimitive(kind) == kind.tag = "prim" /\ kind.spec \in PRIMITIVES

\* The structs of the module under generation and the kinds of their fields:
\* Node refers to itself, Ping and Pong to each other.
StructNames == {"Node", "Ping", "Pong"}

StructFields(name) ==
  CASE name = "Node" -> <<Struct("Node"), INT32>>
    [] name = "Ping" -> <<Struct("Pong")>>
    [] name = "Pong" -> <<Array(Struct("Ping"))>>

Enums == {Enum("Color", {0, 1}), Enum("Mode", {1, 2}), Enum("Empty", {})}

Interfaces == {Interface("Service"), Interface("Client")}

\* Values that are none of the kinds: a str (a struct's name) and None.
Unrecognized == {PyStr("Node"), PyStr("Ping"), PyNone}

BaseKinds ==
  {Primitive(p) : p \in PRIMITIVES} \cup {Struct(n) : n \in StructNames}
    \cup Interfaces \cup Enums

RECURSIVE ArraysOver(_, _)
\* base, and the arrays over it nested at most d deep
ArraysOver(base, d) ==
  IF d = 0 THEN base
  ELSE LET inner == ArraysOver(base, d - 1) IN inner \cup {Array(k) : k \in inner}

Kinds == ArraysOver(BaseKinds, MaxDepth)

\* what may reach a resolver: the kinds, and the values that are not kinds
KindArgs == ArraysOver(BaseKinds \cup Unrecognized, MaxDepth)

RECURSIVE ArrayDepth(_)
ArrayDepth(kind) == IF kind.tag = "array" THEN 1 + ArrayDepth(kind.kind) ELSE 0

RECURSIVE IsKind(_)
\* kind is one of the five variants, and so are the elements of an array
IsKind(kind) ==
  IF kind.tag = "array" THEN IsKind(kind.kind)
  ELSE IsPrimitive(kind) \/ kind.tag \in {"struct", "interface", "enum"}

-----------------------------------------------------------------------------
(* The default_value filter. *)

kind_to_javascript_default_value ==
  [BOOL |-> "false", INT8 |-> "0", UINT8 |-> "0", INT16 |-> "0",
   UINT16 |-> "0", INT32 |-> "0", UINT32 |-> "0", FLOAT |-> "0",
   HANDLE |-> "core.kInvalidHandle", DCPIPE |-> "core.kInvalidHandle",
   DPPIPE |-> "core.kInvalidHandle", MSGPIPE |-> "core.kInvalidHandle",
   SHAREDBUFFER |-> "core.kInvalidHandle", INT64 |-> "0", UINT64 |-> "0",
   DOUBLE |-> "0", STRING |-> "\"\""]

\* a parsed expression: the tuple ("EXPRESSION", [token, ...])
Expression(tokens) == [tag |-> "tuple", items |-> <<"EXPRESSION", tokens>>]

\* mojom.Field: its kind and its default, None or an expression
Field(kind, default) == [kind |-> kind, default |-> default]

\* JavaScriptDefaultValue with the primitive kinds looked up before the check
\* of the field's default
JavaScriptDefaultValue_KindFirst(field) ==
  IF IsPrimitive(field.kind)
  THEN PyStr(kind_to_javascript_default_value[field.kind.spec])
  ELSE IF Truthy(field.default)
  THEN Raised("Default values should've been handled in jinja.")
  ELSE IF field.kind.tag = "struct" THEN PyStr("null")
  ELSE IF field.kind.tag = "array" THEN PyStr("[]")
  ELSE IF field.kind.tag = "interface"
  THEN PyStr(kind_to_javascript_default_value[MSGPIPE.spec])
  ELSE IF field.kind.tag = "enum" THEN PyStr("0")
  ELSE PyNone

\* JavaScriptDefaultValue with an interface treated as the object it looks like
JavaScriptDefaultValue_InterfaceNull(field) ==
  IF Truthy(field.default)
  THEN Raised("Default values should've been handled in jinja.")
  ELSE IF IsPrimitive(field.kind)
  THEN PyStr(kind_to_javascript_default_value[field.kind.spec])
  ELSE IF field.kind.tag \in {"struct", "interface"} THEN PyStr("null")
  ELSE IF field.kind.tag = "array" THEN PyStr("[]")
  ELSE IF field.kind.tag = "enum" THEN PyStr("0")
  ELSE PyNone

JavaScriptDefaultValue(field) ==
  IF Truthy(field.default)
  THEN Raised("Default values should've been handled in jinja.")
  ELSE IF IsPrimitive(field.kind)
  THEN PyStr(kind_to_javascript_default_value[field.kind.spec])
  ELSE IF field.kind.tag = "struct" THEN PyStr("null")
  ELSE IF field.kind.tag = "array" THEN PyStr("[]")
  ELSE IF field.kind.tag = "interface"
  THEN PyStr(kind_to_javascript_default_value[MSGPIPE.spec])
  ELSE IF field.kind.tag = "enum" THEN PyStr("0")
  ELSE PyNone      \* the function ends without a return statement

-----------------------------------------------------------------------------
(* The payload_size filter. *)

\* pack.GetPad: the bytes to add to offset to reach a multiple of alignment
GetPad(offset, alignment) == (alignment - (offset % alignment)) % alignment

PackedField(offset, size) == [offset |-> offset, size |-> size]

\* pack.PackedStruct, of which the filter reads packed_fields
PackedStruct(packed_fields) == [packed_fields |-> packed_fields]

\* JavaScriptPayloadSize reading packed_fields[0] where the code reads [-1]
JavaScriptPayloadSize_FirstField(packed) ==
  LET packed_fields == packed.packed_fields IN
  IF Len(packed_fields) = 0 THEN PyInt(0)
  ELSE LET last_field == packed_fields[1]
           offset == last_field.offset + last_field.size
           pad == GetPad(offset, 8)
       IN PyInt(offset + pad)

JavaScriptPayloadSize(packed) ==
  LET packed_fields == packed.packed_fields IN
  IF Len(packed_fields) = 0 THEN PyInt(0)
  ELSE LET last_field == packed_fields[Len(packed_fields)]
           offset == last_field.offset + last_field.size
           pad == GetPad(offset, 8)
       IN PyInt(offset + pad)

-----------------------------------------------------------------------------
(* CodecType and the decode_snippet and encode_snippet filters. *)

kind_to_codec_type ==
  [BOOL |-> "codec.Uint8", INT8 |-> "codec.Int8", UINT8 |-> "codec.Uint8",
   INT16 |-> "codec.Int16", UINT16 |-> "codec.Uint16", INT32 |-> "codec.Int32",
   UINT32 |-> "codec.Uint32", FLOAT |-> "codec.Float", HANDLE |-> "codec.Handle",
   DCPIPE |-> "codec.Handle", DPPIPE |-> "codec.Handle",
   MSGPIPE |-> "codec.Handle", SHAREDBUFFER |-> "codec.Handle",
   INT64 |-> "codec.Int64", UINT64 |-> "codec.Uint64",
   DOUBLE |-> "codec.Double", STRING |-> "codec.String"]

RECURSIVE CodecType(_)
CodecType(kind) ==
  IF IsPrimitive(kind) THEN PyStr(kind_to_codec_type[kind.spec])
  ELSE IF kind.tag = "struct"
  THEN PyStr("new codec.PointerTo(" \o Fmt(CodecType(PyStr(kind.name))) \o ")")
  ELSE IF kind.tag = "array"
  THEN PyStr("new codec.ArrayOf(" \o Fmt(CodecType(kind.kind)) \o ")")
  ELSE IF kind.tag = "interface" THEN CodecType(MSGPIPE)
  ELSE IF kind.tag = "enum" THEN PyStr(kind_to_codec_type[INT32.spec])
  ELSE kind

RECURSIVE JavaScriptDecodeSnippet(_)
JavaScriptDecodeSnippet(kind) ==
  IF IsPrimitive(kind)
  THEN PyStr("decodeStruct(" \o Fmt(CodecType(kind)) \o ")")
  ELSE IF kind.tag = "struct"
  THEN PyStr("decodeStructPointer(" \o Fmt(CodecType(PyStr(kind.name))) \o ")")
  ELSE IF kind.tag = "array"
  THEN PyStr("decodeArrayPointer(" \o Fmt(CodecType(kind.kind)) \o ")")
  ELSE IF kind.tag = "interface" THEN JavaScriptDecodeSnippet(MSGPIPE)
  ELSE IF kind.tag = "enum" THEN JavaScriptDecodeSnippet(INT32)
  ELSE PyNone      \* the function ends without a return statement

RECURSIVE JavaScriptEncodeSnippet(_)
\* JavaScriptEncodeSnippet with an enum encoded as the unsigned 32-bit integer
JavaScriptEncodeSnippet_EnumUint32(kind) ==
  IF IsPrimitive(kind)
  THEN PyStr("encodeStruct(" \o Fmt(CodecType(kind)) \o ", ")
  ELSE IF kind.tag = "struct"
  THEN PyStr("encodeStructPointer(" \o Fmt(CodecType(PyStr(kind.name))) \o ", ")
  ELSE IF kind.tag = "array"
  THEN PyStr("encodeArrayPointer(" \o Fmt(CodecType(kind.kind)) \o ", ")
  ELSE IF kind.tag = "interface" THEN JavaScriptEncodeSnippet(MSGPIPE)
  ELSE IF kind.tag = "enum" THEN JavaScriptEncodeSnippet(Primitive("UINT32"))
  ELSE PyNone

JavaScriptEncodeSnippet(kind) ==
  IF IsPrimitive(kind)
  THEN PyStr("encodeStruct(" \o Fmt(CodecType(kind)) \o ", ")
  ELSE IF kind.tag = "struct"
  THEN PyStr("encodeStructPointer(" \o Fmt(CodecType(PyStr(kind.name))) \o ", ")
  ELSE IF kind.tag = "array"
  THEN PyStr("encodeArrayPointer(" \o Fmt(CodecType(kind.kind)) \o ", ")
  ELSE IF kind.tag = "interface" THEN JavaScriptEncodeSnippet(MSGPIPE)
  ELSE IF kind.tag = "enum" THEN JavaScriptEncodeSnippet(INT32)
  ELSE PyNone      \* the function ends without a return statement

-----------------------------------------------------------------------------
(* The filters as the template applies them.  They are pure functions: a  *)
(* behaviour is one application, of any filter to any argument.           *)

\* the defaults a field carries: none, or the expression the parser built
Defaults ==
  {PyNone, Expression(<<PyStr("0")>>), Expression(<<PyStr("false")>>),
   Expression(<<PyStr("1"), PyStr("+"), PyStr("2")>>)}

Sizes == {1, 2, 4, 8}

PackedFields == {PackedField(o, s) : o \in 0 .. MaxOffset, s \in Sizes}

\* the packer's lists: at most MaxFields fields, in the order of their offsets
PackedLists ==
  {l \in UNION {[1 .. n -> PackedFields] : n \in 0 .. MaxFields} :
     \A i \in 1 .. Len(l) - 1 : l[i].offset <= l[i + 1].offset}

Off == [tag |-> "off"]

default_value ==
  \E kind \in KindArgs, default \in Defaults :
    /\ filter = "none"
    /\ filter' = "default_value"
    /\ arg' = Field(kind, default)
    /\ ret' = JavaScriptDefaultValue(Field(kind, default))
    /\ UNCHANGED <<codecVars, moduleVars>>

payload_size ==
  \E l \in PackedLists :
    /\ filter = "none"
    /\ filter' = "payload_size"
    /\ arg' = PackedStruct(l)
    /\ ret' = JavaScriptPayloadSize(PackedStruct(l))
    /\ UNCHANGED <<codecVars, moduleVars>>

decode_snippet ==
  \E kind \in KindArgs :
    /\ filter = "none"
    /\ filter' = "decode_snippet"
    /\ arg' = kind
    /\ ret' = JavaScriptDecodeSnippet(kind)
    /\ UNCHANGED <<codecVars, moduleVars>>

encode_snippet ==
  \E kind \in KindArgs :
    /\ filter = "none"
    /\ filter' = "encode_snippet"
    /\ arg' = kind
    /\ ret' = JavaScriptEncodeSnippet(kind)
    /\ UNCHANGED <<codecVars, moduleVars>>

\* the call of CodecType a snippet makes
codec_type ==
  \E kind \in KindArgs :
    /\ filter = "none"
    /\ filter' = "CodecType"
    /\ arg' = kind
    /\ ret' = CodecType(kind)
    /\ UNCHANGED <<codecVars, moduleVars>>

CodecOff ==
  /\ ctTop = Off /\ ctKind = Off /\ ctStack = <<>> /\ ctCalls = 0
  /\ ctPc = "off" /\ ctRet = Off

ModuleOff ==
  /\ module = Off /\ pc = "off" /\ pre = Off /\ context = Off
  /\ expr = Off /\ text = Off

FilterOff == filter = "none" /\ arg = Off /\ ret = Off

Init == FilterOff /\ CodecOff /\ ModuleOff

Next ==
  \/ default_value
  \/ payload_size
  \/ decode_snippet
  \/ encode_snippet
  \/ codec_type

Spec == Init /\ [][Next]_vars

-----------------------------------------------------------------------------
(* CodecType call by call: each step is one call or one return.            *)

\* the frame a caller leaves on the stack: what it does with the value returned
Frames == {"PointerTo", "ArrayOf", "Interface"}

\* CodecTypeCall resolving a struct through the kind of its first field
\* where the code resolves it through its name
CodecTypeCall_IntoFields ==
  /\ ctPc = "call"
  /\ IF IsPrimitive(ctKind)
     THEN /\ ctRet' = PyStr(kind_to_codec_type[ctKind.spec])
          /\ ctPc' = "return"
          /\ UNCHANGED <<ctKind, ctStack, ctCalls>>
     ELSE IF ctKind.tag \in {"struct", "array", "interface"}
     THEN IF Len(ctStack) + 1 >= RecursionLimit
          THEN /\ ctPc' = "raised"
               /\ UNCHANGED <<ctKind, ctStack, ctCalls, ctRet>>
          ELSE /\ ctKind' = CASE ctKind.tag = "struct" -> StructFields(ctKind.name)[1]
                              [] ctKind.tag = "array" -> ctKind.kind
                              [] ctKind.tag = "interface" -> MSGPIPE
               /\ ctStack' = Append(ctStack,
                               CASE ctKind.tag = "struct" -> "PointerTo"
                                 [] ctKind.tag = "array" -> "ArrayOf"
                                 [] ctKind.tag = "interface" -> "Interface")
               /\ ctCalls' = ctCalls + 1
               /\ UNCHANGED <<ctPc, ctRet>>
     ELSE IF ctKind.tag = "enum"
     THEN /\ ctRet' = PyStr(kind_to_codec_type[INT32.spec])
          /\ ctPc' = "return"
          /\ UNCHANGED <<ctKind, ctStack, ctCalls>>
     ELSE /\ ctRet' = ctKind
          /\ ctPc' = "return"
          /\ UNCHANGED <<ctKind, ctStack, ctCalls>>
  /\ UNCHANGED <<ctTop, filterVars, moduleVars>>

\* a call of CodecType(ctKind), up to its return or to the call it makes
CodecTypeCall ==
  /\ ctPc = "call"
  /\ IF IsPrimitive(ctKind)
     THEN /\ ctRet' = PyStr(kind_to_codec_type[ctKind.spec])
          /\ ctPc' = "return"
          /\ UNCHANGED <<ctKind, ctStack, ctCalls>>
     ELSE IF ctKind.tag \in {"struct", "array", "interface"}
     THEN IF Len(ctStack) + 1 >= RecursionLimit
          THEN /\ ctPc' = "raised"      \* RuntimeError: recursion depth exceeded
               /\ UNCHANGED <<ctKind, ctStack, ctCalls, ctRet>>
          ELSE /\ ctKind' = CASE ctKind.tag = "struct" -> PyStr(ctKind.name)
                              [] ctKind.tag = "array" -> ctKind.kind
                              [] ctKind.tag = "interface" -> MSGPIPE
               /\ ctStack' = Append(ctStack,
                               CASE ctKind.tag = "struct" -> "PointerTo"
                                 [] ctKind.tag = "array" -> "ArrayOf"
                                 [] ctKind.tag = "interface" -> "Interface")
               /\ ctCalls' = ctCalls + 1
               /\ UNCHANGED <<ctPc, ctRet>>
     ELSE IF ctKind.tag = "enum"
     THEN /\ ctRet' = PyStr(kind_to_codec_type[INT32.spec])
          /\ ctPc' = "return"
          /\ UNCHANGED <<ctKind, ctStack, ctCalls>>
     ELSE /\ ctRet' = ctKind
          /\ ctPc' = "return"
          /\ UNCHANGED <<ctKind, ctStack, ctCalls>>
  /\ UNCHANGED <<ctTop, filterVars, moduleVars>>

\* the innermost call returns ctRet to its caller, which formats it
CodecTypeReturn ==
  /\ ctPc = "return"
  /\ IF ctStack = <<>>
     THEN ctPc' = "done" /\ UNCHANGED <<ctStack, ctRet>>
     ELSE LET frame == ctStack[Len(ctStack)] IN
          /\ ctStack' = SubSeq(ctStack, 1, Len(ctStack) - 1)
          /\ ctRet' = CASE frame = "PointerTo" ->
                             PyStr("new codec.PointerTo(" \o Fmt(ctRet) \o ")")
                        [] frame = "ArrayOf" ->
                             PyStr("new codec.ArrayOf(" \o Fmt(ctRet) \o ")")
                        [] frame = "Interface" -> ctRet
          /\ UNCHANGED ctPc
  /\ UNCHANGED <<ctTop, ctKind, ctCalls, filterVars, moduleVars>>

InitCodec ==
  /\ FilterOff /\ ModuleOff
  /\ ctTop \in KindArgs
  /\ ctKind = ctTop
  /\ ctStack = <<>>
  /\ ctCalls = 1
  /\ ctPc = "call"
  /\ ctRet = Off

NextCodec ==
  \/ CodecTypeCall
  \/ CodecTypeReturn

\* A call runs to its return: nothing suspends it.
SpecCodec == InitCodec /\ [][NextCodec]_vars /\ WF_vars(NextCodec)

-----------------------------------------------------------------------------
(* Constants in expressions, and the expression_to_text filter.            *)

\* the key unique_name of an import dict before GetImports has set it
Absent == [tag |-> "absent"]

\* an entry of module.imports: a dict
Import(module_name, unique_name) ==
  [tag |-> "dict", module_name |-> module_name, unique_name |-> unique_name]

\* token.imported_from: the i-th dict of module.imports (the token holds a
\* reference to it, not a copy)
ImportRef(i) == [tag |-> "ref", index |-> i]

\* mojom.Constant: name is (scope, member)
Constant(name, parent_kind, imported_from) ==
  [tag |-> "Constant", name |-> name, parent_kind |-> parent_kind,
   imported_from |-> imported_from]

RECURSIVE Join(_, _)
\* sep.join(parts)
Join(sep, parts) ==
  IF Len(parts) = 0 THEN ""
  ELSE IF Len(parts) = 1 THEN parts[1]
  ELSE parts[1] \o sep \o Join(sep, Tail(parts))

\* TranslateConstants joining the parent's name to the scope with "." where
\* the code joins them with "_"
TranslateConstants_Dot(token, m) ==
  IF token.tag = "Constant"
  THEN LET imported == Truthy(token.imported_from)
           unique_name ==
             IF imported THEN m.imports[token.imported_from.index].unique_name
             ELSE PyNone
           name0 == IF imported THEN <<unique_name.s>> ELSE <<>>
           name1 ==
             IF Truthy(token.parent_kind)
             THEN Append(name0, token.parent_kind.name \o "." \o token.name[1])
             ELSE Append(name0, token.name[1])
           name2 == Append(name1, token.name[2])
       IN IF imported /\ unique_name = Absent
          THEN Raised("KeyError: 'unique_name'")
          ELSE PyStr(Join(".", name2))
  ELSE token

TranslateConstants(token, m) ==
  IF token.tag = "Constant"
  THEN LET imported == Truthy(token.imported_from)
           unique_name ==
             IF imported THEN m.imports[token.imported_from.index].unique_name
             ELSE PyNone
           name0 == IF imported THEN <<unique_name.s>> ELSE <<>>
           name1 ==
             IF Truthy(token.parent_kind)
             THEN Append(name0, token.parent_kind.name \o "_" \o token.name[1])
             ELSE Append(name0, token.name[1])
           name2 == Append(name1, token.name[2])
       IN IF imported /\ unique_name = Absent
          THEN Raised("KeyError: 'unique_name'")
          ELSE PyStr(Join(".", name2))
  ELSE token

\* generator.ExpressionMapper with the mapper ExpressionToText passes it,
\* lambda token: TranslateConstants(token, module), applied to each token in turn
ExpressionMapper(value, m) ==
  [i \in 1 .. Len(value.items[2]) |-> TranslateConstants(value.items[2][i], m)]

ExpressionToText(value, m) ==
  IF value.items[1] # "EXPRESSION"
  THEN Raised("Expected EXPRESSION")
  ELSE LET parts == ExpressionMapper(value, m)
       IN IF \E i \in 1 .. Len(parts) : parts[i].tag = "raise"
          THEN parts[CHOOSE i \in 1 .. Len(parts) :
                       /\ parts[i].tag = "raise"
                       /\ \A j \in 1 .. i - 1 : parts[j].tag # "raise"]
          ELSE PyStr(Join("", [i \in 1 .. Len(parts) |-> parts[i].s]))

-----------------------------------------------------------------------------
(* The Generator. *)

Alias(counter) == PyStr("import" \o str(counter))

RECURSIVE GetImportsLoop(_, _, _)
\* the loop without its `counter += 1`
GetImportsLoop_NoIncrement(imports, i, counter) ==
  IF i > Len(imports) THEN imports
  ELSE GetImportsLoop([imports EXCEPT ![i].unique_name = Alias(counter)],
                      i + 1, counter)

\* the for loop of GetImports, from the i-th import on
GetImportsLoop(imports, i, counter) ==
  IF i > Len(imports) THEN imports
  ELSE GetImportsLoop([imports EXCEPT ![i].unique_name = Alias(counter)],
                      i + 1, counter + 1)

\* GetImports storing the alias under the key module_name
GetImports_WrongKey(m) ==
  [m EXCEPT !.imports =
     [i \in 1 .. Len(m.imports) |->
        [m.imports[i] EXCEPT !.module_name = "import" \o str(i)]]]

\* GetImports whose loop starts at the second import
GetImports_SkipFirst(m) == [m EXCEPT !.imports = GetImportsLoop(m.imports, 2, 2)]

\* self.module after GetImports; the list it returns is its imports
GetImports(m) == [m EXCEPT !.imports = GetImportsLoop(m.imports, 1, 1)]

\* the tokens an expression of module m may hold: literals and operators, and
\* constants of the module itself or of one of its imports
Tokens(m) ==
  {PyStr("1"), PyStr("+")}
    \cup {Constant(<<"Color", "RED">>, parent, from) :
            parent \in {PyNone, Struct("Shape")},
            from \in {PyNone} \cup {ImportRef(i) : i \in 1 .. Len(m.imports)}}

Expressions(m) ==
  {Expression(tokens) : tokens \in UNION {[1 .. n -> Tokens(m)] : n \in 1 .. MaxTokens}}

ModuleNames == {"a", "b"}

\* the modules the parser hands over: no import has an alias yet
Modules ==
  {[name |-> "sample", structs |-> StructNames, imports |-> imports] :
     imports \in UNION {[1 .. n -> {Import(mn, Absent) : mn \in ModuleNames}] :
                          n \in 0 .. MaxImports}}

\* the body of GenerateJsModule: the context dict, built with GetImports
GenerateJsModule ==
  /\ pc = "idle"
  /\ pre' = module
  /\ module' = GetImports(module)
  /\ context' = [imports |-> module'.imports, module |-> module',
                 structs |-> module'.structs]
  /\ pc' = "context"
  /\ UNCHANGED <<expr, text, filterVars, codecVars>>

\* UseJinja: the template is rendered with the context GenerateJsModule
\* returned, and applies expression_to_text to an expression of the module
Render ==
  /\ pc = "context"
  /\ \E e \in Expressions(module) :
       /\ expr' = e
       /\ text' = ExpressionToText(e, module)
  /\ pc' = "rendered"
  /\ UNCHANGED <<module, pre, context, filterVars, codecVars>>

\* GenerateFiles writes the text rendered; the generator may then run again
Write ==
  /\ pc \in {"context", "rendered"}
  /\ pc' = "idle"
  /\ context' = Off
  /\ expr' = Off
  /\ text' = Off
  /\ UNCHANGED <<module, pre, filterVars, codecVars>>

InitModule ==
  /\ FilterOff /\ CodecOff
  /\ module \in Modules
  /\ pc = "idle"
  /\ pre = Off
  /\ context = Off
  /\ expr = Off
  /\ text = Off

NextModule ==
  \/ GenerateJsModule
  \/ Render
  \/ Write

SpecModule == InitModule /\ [][NextModule]_vars

-----------------------------------------------------------------------------
(* The stepped CodecType returns what the recursive definition computes. *)

CodecTypeAgrees == ctPc = "done" => ctRet = CodecType(ctTop)

-----------------------------------------------------------------------------
(* Properties of the filters, checked under Spec. *)

\* C1: payload_size returns 0 for an empty list of packed fields and otherwise
\* the smallest multiple of 8 that is >= raw, where raw is offset + size of the
\* last field of the list; a last field (0,1) gives 8, a last field (9,4)
\* gives 16, and a raw that is a multiple of 8 is returned as it is.
C1_PayloadSize ==
  filter = "payload_size" =>
    LET l == arg.packed_fields IN
    IF Len(l) = 0 THEN ret = PyInt(0)
    ELSE LET raw == l[Len(l)].offset + l[Len(l)].size IN
         /\ ret.tag = "int"
         /\ ret.n % 8 = 0
         /\ ret.n >= raw
         /\ \A n \in raw .. ret.n - 1 : n % 8 # 0
         /\ (raw % 8 = 0 => ret.n = raw)
         /\ (l[Len(l)] = PackedField(0, 1) => ret.n = 8)
         /\ (l[Len(l)] = PackedField(9, 4) => ret.n = 16)

\* payload_size has been applied to a list of two fields whose last is (9,4)
C1_Witness ==
  /\ filter = "payload_size"
  /\ arg.packed_fields = <<PackedField(0, 8), PackedField(9, 4)>>
  /\ ret = PyInt(16)

\* C2: default_value applied to a field that has an explicit default raises,
\* whatever the kind of the field and whatever the default is.
C2_ExplicitDefaultRaises ==
  (filter = "default_value" /\ arg.default # PyNone) => ret.tag = "raise"

\* default_value has raised for an enum field whose default is the literal 0
C2_Witness ==
  /\ filter = "default_value"
  /\ arg.kind.tag = "enum"
  /\ arg.default = Expression(<<PyStr("0")>>)
  /\ ret.tag = "raise"

\* C3: a value that is none of the kinds (not a primitive, struct, array,
\* interface or enum) makes CodecType, default_value, decode_snippet and
\* encode_snippet raise; none returns a result for it.
C3_FailFast ==
  /\ (filter \in {"CodecType", "decode_snippet", "encode_snippet"}
        /\ arg \in Unrecognized) => ret.tag = "raise"
  /\ (filter = "default_value" /\ arg.kind \in Unrecognized) => ret.tag = "raise"

\* C4: in CodecType, decode_snippet and encode_snippet alike, an interface
\* gives the result of the message pipe and an enum the result of int32.
C4_Aliasing ==
  /\ (filter = "CodecType" /\ arg.tag = "interface") => ret = CodecType(MSGPIPE)
  /\ (filter = "CodecType" /\ arg.tag = "enum") => ret = CodecType(INT32)
  /\ (filter = "decode_snippet" /\ arg.tag = "interface") =>
       ret = JavaScriptDecodeSnippet(MSGPIPE)
  /\ (filter = "decode_snippet" /\ arg.tag = "enum") =>
       ret = JavaScriptDecodeSnippet(INT32)
  /\ (filter = "encode_snippet" /\ arg.tag = "interface") =>
       ret = JavaScriptEncodeSnippet(MSGPIPE)
  /\ (filter = "encode_snippet" /\ arg.tag = "enum") =>
       ret = JavaScriptEncodeSnippet(INT32)

\* encode_snippet has been applied to an enum and returned the int32 snippet
C4_Witness ==
  /\ filter = "encode_snippet"
  /\ arg.tag = "enum"
  /\ ret = PyStr("encodeStruct(codec.Int32, ")

NumericPrimitives ==
  {"INT8", "UINT8", "INT16", "UINT16", "INT32", "UINT32", "INT64", "UINT64",
   "FLOAT", "DOUBLE"}

\* C7: for a field without an explicit default, default_value returns "0" for
\* the numeric primitives, "false" for bool, the empty-string literal for
\* string, "null" for a struct, "[]" for an array, for an interface the
\* invalid-handle sentinel of the message pipe, and "0" for an enum whatever
\* its members are.
C7_DefaultLiterals ==
  (filter = "default_value" /\ arg.default = PyNone) =>
    LET kind == arg.kind IN
    /\ (kind.tag = "prim" /\ kind.spec \in NumericPrimitives) => ret = PyStr("0")
    /\ (kind.tag = "prim" /\ kind.spec = "BOOL") => ret = PyStr("false")
    /\ (kind.tag = "prim" /\ kind.spec = "STRING") => ret = PyStr("\"\"")
    /\ kind.tag = "struct" => ret = PyStr("null")
    /\ kind.tag = "array" => ret = PyStr("[]")
    /\ kind.tag = "interface" =>
         /\ ret = JavaScriptDefaultValue(Field(MSGPIPE, PyNone))
         /\ ret = PyStr("core.kInvalidHandle")
    /\ kind.tag = "enum" => ret = PyStr("0")

\* default_value has returned the sentinel for an interface field
C7_Witness ==
  /\ filter = "default_value"
  /\ arg = Field(Interface("Service"), PyNone)
  /\ ret = PyStr("core.kInvalidHandle")

\* default_value has returned "0" for an enum that declares no member 0
C7_WitnessEnum ==
  /\ filter = "default_value"
  /\ arg = Field(Enum("Mode", {1, 2}), PyNone)
  /\ ret = PyStr("0")

-----------------------------------------------------------------------------
(* Properties of CodecType, checked under SpecCodec. *)

\* C9 as stated: CodecType makes at most as many recursive calls as the kind
\* has levels of array nesting.
C9_CallsWithinDepth == ctCalls - 1 <= ArrayDepth(ctTop)

\* C9, amended: CodecType returns for every kind, the structs that refer to
\* themselves or to each other included; a struct resolves to PointerTo around
\* its name, an array to ArrayOf around its element's codec; and the recursive
\* calls number at most the array nesting depth of the kind plus one (the call
\* on the struct's name, or on the message pipe for an interface).
C9_Terminates ==
  /\ [](ctCalls - 1 <= ArrayDepth(ctTop) + 1)
  /\ [](ctPc # "raised")
  /\ []((ctPc = "done" /\ ctTop.tag = "struct") =>
          ctRet = PyStr("new codec.PointerTo(" \o ctTop.name \o ")"))
  /\ []((ctPc = "done" /\ ctTop.tag = "array") =>
          ctRet = PyStr("new codec.ArrayOf(" \o Fmt(CodecType(ctTop.kind)) \o ")"))
  /\ <>(ctPc = "done")

\* CodecType has returned for an array of the struct Pong, which refers to Ping
\* and Ping to it, after two recursive calls
C9_Witness ==
  /\ ctPc = "done"
  /\ ctTop = Array(Struct("Pong"))
  /\ ctCalls = 3
  /\ ctRet = PyStr("new codec.ArrayOf(new codec.PointerTo(Pong))")

-----------------------------------------------------------------------------
(* Properties of the Generator, checked under SpecModule. *)

Assembled == pc \in {"context", "rendered"}

ExpectedAlias ==
  <<"import1", "import2", "import3", "import4", "import5", "import6",
    "import7", "import8", "import9", "import10", "import11", "import12">>

\* C5: once the context is built, the i-th import of the module carries the
\* alias "import<i>", whatever the import holds and whatever alias it had; no
\* two imports share an alias; and a run on a module that has been through
\* one already leaves the same aliases.
C5_Aliases ==
  Assembled =>
    LET imports == module.imports IN
    /\ \A i \in 1 .. Len(imports) : imports[i].unique_name = PyStr(ExpectedAlias[i])
    /\ \A i, j \in 1 .. Len(imports) :
         i # j => imports[i].unique_name # imports[j].unique_name
    /\ context.imports = imports
    /\ (\E i \in 1 .. Len(pre.imports) : pre.imports[i].unique_name # Absent)
         => imports = pre.imports

\* the context of a second run is built, on a module whose first two of three
\* imports are of the same module
C5_Witness ==
  /\ pc = "context"
  /\ Len(module.imports) = 3
  /\ module.imports[1].module_name = module.imports[2].module_name
  /\ pre.imports[3].unique_name = PyStr("import3")
  /\ module.imports[2].unique_name = PyStr("import2")

\* what C6 says translate returns for a token
C6_Expected(token) ==
  IF token.tag = "Constant"
  THEN (IF token.imported_from # PyNone
        THEN module.imports[token.imported_from.index].unique_name.s \o "."
        ELSE "")
       \o (IF token.parent_kind # PyNone
           THEN token.parent_kind.name \o "_" \o token.name[1]
           ELSE token.name[1])
       \o "." \o token.name[2]
  ELSE token.s

RECURSIVE C6_ExpectedText(_)
C6_ExpectedText(tokens) ==
  IF tokens = <<>> THEN ""
  ELSE C6_Expected(Head(tokens)) \o C6_ExpectedText(Tail(tokens))

\* C6: translate returns, for a constant, the alias of its import (if it is
\* imported), then parent_name + "_" + name[0] (if it has a parent kind) or
\* name[0] alone, then name[1], joined with "."; ("Color","RED") without
\* parent or import gives "Color.RED" and with the parent Shape
\* "Shape_Color.RED"; any other token is returned as it is.
C6_Translate ==
  pc = "rendered" =>
    LET tokens == expr.items[2] IN
    /\ text = PyStr(C6_ExpectedText(tokens))
    /\ tokens = <<Constant(<<"Color", "RED">>, PyNone, PyNone)>>
         => text = PyStr("Color.RED")
    /\ tokens = <<Constant(<<"Color", "RED">>, Struct("Shape"), PyNone)>>
         => text = PyStr("Shape_Color.RED")
    /\ tokens = <<PyStr("+")>> => text = PyStr("+")

\* a constant of the second import, with the parent Shape, has been translated
C6_Witness ==
  /\ pc = "rendered"
  /\ expr = Expression(<<Constant(<<"Color", "RED">>, Struct("Shape"), ImportRef(2))>>)
  /\ text = PyStr("import2.Shape_Color.RED")

C10_AliasBeforeTranslate ==
  /\ Assembled =>
       \A i \in 1 .. Len(module.imports) : module.imports[i].unique_name.tag = "str"
  /\ pc = "rendered" => text.tag = "str"

\* in the first run, on imports that had no alias, a constant of the first
\* import has been translated
C10_Witness ==
  /\ pc = "rendered"
  /\ Len(pre.imports) >= 1
  /\ pre.imports[1].unique_name = Absent
  /\ expr = Expression(<<Constant(<<"Color", "RED">>, PyNone, ImportRef(1))>>)
  /\ text = PyStr("import1.Color.RED")

====
